---- MODULE Spec2Model ----
(***************************************************************************)
(* Model of baseplate.lib.experiments.variant_sets.single_variant_set:     *)
(* the class SingleVariantSet (construction with _validate_variants, the   *)
(* membership test __contains__ and choose_variant).                       *)
(*                                                                         *)
(* Encoding of Python values:                                              *)
(*   - a float is an exact rational <<num, den>> with den > 0.  On the     *)
(*     sizes and bucket counts enumerated below the IEEE double product    *)
(*     size * num_buckets and the double sum size0 + size1 have the same   *)
(*     truncation and the same comparison outcome as the exact rational    *)
(*     (-0.5, 0.0, 1.0, 1.5 are exact doubles; the products and sums of    *)
(*     0.4 and 0.6 were compared one by one), so the rational arithmetic   *)
(*     is the arithmetic of the program on these inputs;                   *)
(*   - a dict is a function whose DOMAIN is a subset of {"name","size"};   *)
(*     a missing key is a missing element of the DOMAIN;                   *)
(*   - the argument `variants` is [none |-> b, list |-> s]: none is TRUE   *)
(*     when None was passed, otherwise list is the list of dicts;          *)
(*   - a result is a string: a variant name, "None" for Python's None,     *)
(*     "True"/"False" for a bool, "KeyError" for a raised KeyError.        *)
(***************************************************************************)
EXTENDS Integers, Sequences, FiniteSets, TLC

(* ---------------------------- bounds ---------------------------------- *)
(* bucket counts and bucket indices range over -MaxBelowZero..MaxBuckets *)
MaxBelowZero == 1
MaxBuckets == 5
MinBuckets == -MaxBelowZero

(* the default of the num_buckets parameter of __init__ *)
DefaultNumBuckets == 1000

Callers == {"t1", "t2"}
Items == {"A", "B", "C"}

(* the floats -0.5, 0.0, 0.4, 0.6, 1.0, 1.5 *)
SizeValues == { <<-1, 2>>, <<0, 1>>, <<2, 5>>, <<3, 5>>, <<1, 1>>, <<3, 2>> }

NumBucketsValues == (MinBuckets..MaxBuckets) \cup {DefaultNumBuckets}
Buckets == MinBuckets..MaxBuckets

(* markers of an absent key, used only to enumerate the input dicts *)
NoName == ""
NoSize == <<0, 0>>

(* the dict with the given name and size, a marker leaving the key out *)
Dict(n, s) ==
    [k \in (IF n = NoName THEN {} ELSE {"name"}) \cup (IF s = NoSize THEN {} ELSE {"size"})
       |-> IF k = "name" THEN n ELSE s]

NameChoices == { <<"A", "B">>, <<"A", "A">>, <<NoName, "B">>, <<"A", NoName>> }

(* lists of a wrong length: their content is never read *)
OtherLists ==
    { <<>>, <<Dict("A", <<2, 5>>)>>,
      <<Dict("A", <<0, 1>>), Dict("B", <<0, 1>>), Dict("C", <<0, 1>>)>> }

VariantsValues ==
    {[none |-> TRUE, list |-> <<>>]}
      \cup {[none |-> FALSE, list |-> l] : l \in OtherLists}
      \cup {[none |-> FALSE, list |-> <<Dict(nm[1], s0), Dict(nm[2], s1)>>] :
               nm \in NameChoices,
               s0 \in SizeValues \cup {NoSize}, s1 \in SizeValues \cup {NoSize}}

(* -------------------------- arithmetic -------------------------------- *)
(* float * int *)
Mul(q, n) == <<q[1] * n, q[2]>>

(* float + float *)
Add(p, q) == <<p[1] * q[2] + q[1] * p[2], p[2] * q[2]>>

(* float comparisons with the literals 0.0 and 1.0, and with another float *)
LtZero(q) == q[1] < 0
GtOne(q) == q[1] > q[2]
Less(p, q) == p[1] * q[2] < q[1] * p[2]

(* Python's int(float): truncation toward zero *)
int(q) == IF q[1] >= 0 THEN q[1] \div q[2] ELSE -((-q[1]) \div q[2])

(* mathematical floor, the reference rule of the specification *)
Floor(q) == q[1] \div q[2]

(* dict.get(key) is None *)
GetIsNone(d, key) == key \notin DOMAIN d

VARIABLES status, error, variants, num_buckets, last

vars == <<status, error, variants, num_buckets, last>>

NoCall == [op |-> "none", bucket |-> 0, item |-> "", ret |-> "unset"]

(* ----------------------- SingleVariantSet ----------------------------- *)
(* variant of _validate_variants that forgets the upper limit of the sum *)
_validate_variants_no_upper(vs) ==
    IF vs.none THEN "No variants provided"
    ELSE IF Len(vs.list) # 2 THEN "Single Variant experiments expect only one variant and one control."
    ELSE IF GetIsNone(vs.list[1], "size") \/ GetIsNone(vs.list[2], "size")
         THEN "Variant size not provided"
    ELSE LET total_size == Add(vs.list[1].size, vs.list[2].size)
         IN IF LtZero(total_size)
            THEN "Sum of all variants must be between 0 and 1."
            ELSE ""

(* _validate_variants: the message of the ValueError raised, "" when none *)
_validate_variants(vs) ==
    IF vs.none THEN "No variants provided"
    ELSE IF Len(vs.list) # 2 THEN "Single Variant experiments expect only one variant and one control."
    ELSE IF GetIsNone(vs.list[1], "size") \/ GetIsNone(vs.list[2], "size")
         THEN "Variant size not provided"
    ELSE LET total_size == Add(vs.list[1].size, vs.list[2].size)
         IN IF LtZero(total_size) \/ GtOne(total_size)
            THEN "Sum of all variants must be between 0 and 1."
            ELSE ""

(* int(self.variants[0]["size"] * self.num_buckets) *)
LowWidth(vs, n) == int(Mul(vs.list[1].size, n))

(* int(self.variants[1]["size"] * self.num_buckets) *)
HighWidth(vs, n) == int(Mul(vs.list[2].size, n))

(* self.variants[i]["name"]: the name, or the KeyError of a missing key *)
NameOf(d) == IF "name" \in DOMAIN d THEN d.name ELSE "KeyError"

(* variant of InLow with an off-by-one comparison *)
InLowInclusive(vs, n, bucket) == bucket <= LowWidth(vs, n)

(* bucket < int(size0 * num_buckets) *)
InLow(vs, n, bucket) == bucket < LowWidth(vs, n)

(* variants of InHigh: a strict comparison; the width taken for the boundary *)
InHighStrict(vs, n, bucket) == bucket > n - HighWidth(vs, n)
InHighFromZero(vs, n, bucket) == bucket >= HighWidth(vs, n)

(* bucket >= num_buckets - int(size1 * num_buckets) *)
InHigh(vs, n, bucket) == bucket >= n - HighWidth(vs, n)

(* variant of choose_variant that lays both regions out from index 0 *)
choose_variant_contiguous(vs, n, bucket) ==
    IF bucket < LowWidth(vs, n) THEN NameOf(vs.list[1])
    ELSE IF bucket < LowWidth(vs, n) + HighWidth(vs, n) THEN NameOf(vs.list[2])
    ELSE "None"

choose_variant(vs, n, bucket) ==
    IF InLow(vs, n, bucket) THEN NameOf(vs.list[1])
    ELSE IF InHigh(vs, n, bucket) THEN NameOf(vs.list[2])
    ELSE "None"

(* __contains__: dict.get("name") == item *)
contains(vs, item) ==
    IF (~GetIsNone(vs.list[1], "name") /\ vs.list[1].name = item)
         \/ (~GetIsNone(vs.list[2], "name") /\ vs.list[2].name = item)
    THEN "True" ELSE "False"

(* ---------------------------- actions --------------------------------- *)
Init ==
    /\ status = "none"
    /\ error = ""
    /\ variants = [none |-> TRUE, list |-> <<>>]
    /\ num_buckets = 0
    /\ last = [c \in Callers |-> NoCall]

(* SingleVariantSet(variants, num_buckets): the fields are assigned, then  *)
(* validated; the caller gets the object only when no error is raised.     *)
Construct(vs, n) ==
    /\ status = "none"
    /\ variants' = vs
    /\ num_buckets' = n
    /\ error' = _validate_variants(vs)
    /\ status' = IF _validate_variants(vs) = "" THEN "constructed" ELSE "failed"
    /\ UNCHANGED last

(* variant of ChooseVariant that stores the bucket in self.num_buckets *)
ChooseVariantStoring(c, bucket) ==
    /\ status = "constructed"
    /\ last' = [last EXCEPT ![c] =
                  [op |-> "choose_variant", bucket |-> bucket, item |-> "",
                   ret |-> choose_variant(variants, num_buckets, bucket)]]
    /\ num_buckets' = bucket
    /\ UNCHANGED <<status, error, variants>>

(* a caller evaluates self.choose_variant(bucket) *)
ChooseVariant(c, bucket) ==
    /\ status = "constructed"
    /\ last' = [last EXCEPT ![c] =
                  [op |-> "choose_variant", bucket |-> bucket, item |-> "",
                   ret |-> choose_variant(variants, num_buckets, bucket)]]
    /\ UNCHANGED <<status, error, variants, num_buckets>>

(* a caller evaluates `item in self` *)
Contains(c, item) ==
    /\ status = "constructed"
    /\ last' = [last EXCEPT ![c] =
                  [op |-> "contains", bucket |-> 0, item |-> item,
                   ret |-> contains(variants, item)]]
    /\ UNCHANGED <<status, error, variants, num_buckets>>

Next ==
    \/ \E vs \in VariantsValues, n \in NumBucketsValues : Construct(vs, n)
    \/ \E c \in Callers, bucket \in Buckets : ChooseVariant(c, bucket)
    \/ \E c \in Callers, item \in Items : Contains(c, item)

Spec == Init /\ [][Next]_vars

(* ====================== properties of the claims ====================== *)
Constructed == status = "constructed"
Chose(c) == last[c].op = "choose_variant"
InRange(b) == 0 <= b /\ b < num_buckets
HasName(d) == "name" \in DOMAIN d
IsZero(q) == q[1] = 0
IsOne(q) == q[1] = q[2]
IsWhole(q) == q[1] % q[2] = 0
InUnit(q) == ~LtZero(q) /\ ~GtOne(q)

(* the invariants of the data model that make a partition valid: two named *)
(* outcomes, both with a proportion, sum in [0, 1], a positive bucket count *)
Valid(vs, n) ==
    /\ ~vs.none
    /\ Len(vs.list) = 2
    /\ \A i \in 1..2 : DOMAIN vs.list[i] = {"name", "size"}
    /\ InUnit(Add(vs.list[1].size, vs.list[2].size))
    /\ n > 0

WithSizes(vs, p0, p1) ==
    [vs EXCEPT !.list = <<[vs.list[1] EXCEPT !.size = p0], [vs.list[2] EXCEPT !.size = p1]>>]

(* the reference rule of the specification, with floor for the widths *)
Reference(vs, n, bucket) ==
    IF bucket < Floor(Mul(vs.list[1].size, n)) THEN NameOf(vs.list[1])
    ELSE IF bucket >= n - Floor(Mul(vs.list[2].size, n)) THEN NameOf(vs.list[2])
    ELSE "None"

(* C1: on every constructed partition, for every bucket, choose_variant     *)
(* gives the result of the reference rule whose widths are floor(size *     *)
(* num_buckets). (A missing name, the subject of C4, is treated alike on    *)
(* both sides.)                                                             *)
C1_MatchesReference ==
    Constructed =>
        \A c \in Callers :
            Chose(c) => last[c].ret = Reference(variants, num_buckets, last[c].bucket)

(* the configuration breaks one of the conditions construction checks *)
ConfigViolation ==
    \/ variants.none
    \/ Len(variants.list) # 2
    \/ \E i \in 1..2 : "size" \notin DOMAIN variants.list[i]
    \/ ~InUnit(Add(variants.list[1].size, variants.list[2].size))

(* C2: a construction from a missing list, from a list of other than two   *)
(* outcomes, with a missing proportion or with a sum outside [0, 1] fails  *)
(* with an error, and no query is ever answered by such a partition.       *)
C2_InvalidConfigRejected ==
    (status # "none" /\ ConfigViolation) =>
        /\ status = "failed"
        /\ error # ""
        /\ \A c \in Callers : last[c] = NoCall

C2_Witness ==
    /\ status = "failed"
    /\ ~variants.none
    /\ Len(variants.list) = 2
    /\ \A i \in 1..2 : "size" \in DOMAIN variants.list[i]
    /\ GtOne(Add(variants.list[1].size, variants.list[2].size))

(* C3: every constructed partition has a positive bucket count. *)
C3_PositiveBucketCount == Constructed => num_buckets > 0

(* C4: no query on a constructed partition raises an error. *)
C4_QueriesNeverRaise == \A c \in Callers : last[c].ret # "KeyError"

(* C5: no step changes the outcomes or the bucket count of a constructed   *)
(* partition, and a choose_variant call returns what every earlier call    *)
(* with the same bucket returned, whichever caller made it and whatever    *)
(* queries came in between.                                                *)
C5_Deterministic ==
    [][ /\ Constructed => (variants' = variants /\ num_buckets' = num_buckets /\ Constructed')
        /\ \A c, d \in Callers :
              (last'[c].op = "choose_variant" /\ Chose(d) /\ last'[c].bucket = last[d].bucket)
                  => last'[c].ret = last[d].ret ]_vars

C5_Witness ==
    /\ Constructed
    /\ Chose("t1") /\ Chose("t2")
    /\ last["t1"].bucket = last["t2"].bucket
    /\ last["t1"].ret = "A"

(* C6: on a valid partition, growing the proportion of outcome 0 (same     *)
(* bucket count, same proportion of outcome 1, still valid) keeps every    *)
(* assignment to outcome 0 or 1; a result changes only from None to        *)
(* outcome 0, for a bucket below the new low width.                        *)
C6_StableUnderResize ==
    (Constructed /\ Valid(variants, num_buckets)) =>
        \A c \in Callers : Chose(c) =>
            \A p2 \in SizeValues :
                LET grown == WithSizes(variants, p2, variants.list[2].size)
                    r1 == last[c].ret
                    r2 == choose_variant(grown, num_buckets, last[c].bucket)
                IN  (Less(variants.list[1].size, p2) /\ Valid(grown, num_buckets)) =>
                        /\ r1 # "None" => r2 = r1
                        /\ r2 # r1 => /\ r1 = "None"
                                      /\ last[c].bucket < LowWidth(grown, num_buckets)
                                      /\ r2 = grown.list[1].name

C6_Witness ==
    /\ Constructed /\ Valid(variants, num_buckets)
    /\ \E c \in Callers, p2 \in SizeValues :
          LET grown == WithSizes(variants, p2, variants.list[2].size)
          IN  /\ Chose(c)
              /\ Less(variants.list[1].size, p2) /\ Valid(grown, num_buckets)
              /\ last[c].ret = "None"
              /\ choose_variant(grown, num_buckets, last[c].bucket) = "A"

(* the constructed partition has the 60/40 distribution *)
SixtyForty ==
    /\ Constructed /\ Valid(variants, num_buckets)
    /\ variants.list[1].size = <<3, 5>>
    /\ variants.list[2].size = <<2, 5>>

(* the result of the 40/60 partition on the same names and bucket count *)
FortySixty(bucket) ==
    choose_variant(WithSizes(variants, <<2, 5>>, <<3, 5>>), num_buckets, bucket)

FullSum ==
    /\ Constructed /\ Valid(variants, num_buckets)
    /\ IsOne(Add(variants.list[1].size, variants.list[2].size))

(* C8 as claimed: when the proportions sum to 1.0 every in-range bucket is *)
(* assigned to one of the two outcomes.                                    *)
C8_NoGap ==
    FullSum =>
        \A c \in Callers :
            (Chose(c) /\ InRange(last[c].bucket))
                => last[c].ret \in {variants.list[1].name, variants.list[2].name}

(* C8 amended: the same, when both size * num_buckets are whole numbers. *)
C8_NoGapWhole ==
    (/\ FullSum
     /\ IsWhole(Mul(variants.list[1].size, num_buckets))
     /\ IsWhole(Mul(variants.list[2].size, num_buckets))) =>
        \A c \in Callers :
            (Chose(c) /\ InRange(last[c].bucket))
                => last[c].ret \in {variants.list[1].name, variants.list[2].name}

C8_Witness ==
    /\ FullSum
    /\ variants.list[1].size = <<2, 5>>
    /\ IsWhole(Mul(variants.list[1].size, num_buckets))
    /\ IsWhole(Mul(variants.list[2].size, num_buckets))
    /\ \E c \in Callers :
          /\ Chose(c) /\ InRange(last[c].bucket)
          /\ last[c].bucket = LowWidth(variants, num_buckets)
          /\ last[c].ret = "B"

(* the two outcomes do not carry the same name *)
DistinctNames ==
    ~(/\ HasName(variants.list[1]) /\ HasName(variants.list[2])
      /\ variants.list[1].name = variants.list[2].name)

(* the name of outcome i was returned to caller c *)
Won(c, i) == HasName(variants.list[i]) /\ last[c].ret = variants.list[i].name

(* C9 as claimed: an outcome of proportion 0 is never returned, for any    *)
(* bucket, in range or not. (Stated on the partitions that also have two   *)
(* distinct names and a positive bucket count, where it already fails.)    *)
C9_ZeroNeverWins ==
    (Constructed /\ Valid(variants, num_buckets) /\ DistinctNames) =>
        \A c \in Callers, i \in 1..2 :
            (Chose(c) /\ IsZero(variants.list[i].size)) => ~Won(c, i)

(* C9 amended: when the two names differ, an outcome of proportion 0 is    *)
(* never returned for a bucket in [0, num_buckets).                        *)
C9_ZeroNeverWinsInRange ==
    (Constructed /\ DistinctNames) =>
        \A c \in Callers, i \in 1..2 :
            (Chose(c) /\ InRange(last[c].bucket) /\ IsZero(variants.list[i].size))
                => ~Won(c, i)

C9_Witness ==
    /\ Constructed /\ DistinctNames
    /\ \E c \in Callers :
          /\ Chose(c) /\ InRange(last[c].bucket)
          /\ IsZero(variants.list[1].size)
          /\ HasName(variants.list[1])
          /\ Won(c, 2)

(* C10: every constructed partition has both proportions in [0, 1], widths *)
(* that are not negative and that together do not exceed the bucket count. *)
C10_WidthsInsideRange ==
    Constructed =>
        /\ InUnit(variants.list[1].size)
        /\ InUnit(variants.list[2].size)
        /\ 0 <= LowWidth(variants, num_buckets)
        /\ 0 <= HighWidth(variants, num_buckets)
        /\ LowWidth(variants, num_buckets) + HighWidth(variants, num_buckets) <= num_buckets

====
